---- MODULE Spec2Model ----
(***************************************************************************)
(* Collision and zone core of the adventure game (src/game.js):            *)
(* MapManager (obstacle load, shape classifier, spatial grid, narrow       *)
(* phase), Player.move and HouseInteractionManager zone membership.        *)
(*                                                                         *)
(* Numbers.  The map documents of the model carry integer coordinates.     *)
(* Where the code halves a size (circle centres and radii, the apex of the *)
(* default triangle, the body's centre) the model compares the doubled     *)
(* quantities, so every comparison is exact integer arithmetic.  A         *)
(* quotient compared with a bound (barycentric weights, ray casting,       *)
(* segment parameters) is compared after multiplying by the denominator,   *)
(* with the sign of the denominator taken into account; a zero denominator *)
(* is modelled by what IEEE division gives the code (NaN or an infinity).  *)
(* Rotations are multiples of 90 degrees, taken with their exact cosine    *)
(* and sine.                                                               *)
(***************************************************************************)
EXTENDS Integers, Sequences, FiniteSets, TLC

\* ------------------------------------------------------------------ bounds
MaxObstacles == 2     \* objects in the walls layer of a map document
MaxMoves == 2         \* Player.move calls in one behaviour
MaxZones == 2         \* layers of a houses document
MaxStarts == 2        \* startGame calls in one behaviour
MaxCell == 34         \* bodies of direct calls sit at multiples of 5 up to 5 * MaxCell
MaxSide == 2          \* coordinates and sizes of the rectangle pairs
MaxVertex == 2        \* polygon vertices of direct calls sit at 0, 2, .., 2 * MaxVertex

\* -------------------------------------------------------- program constants
gridSize == 100
DefaultWidth == 1
DefaultHeight == 1
DefaultTileWidth == 1037
DefaultTileHeight == 1613
InitialTileSize == 32
checkInterval == 100
ShowDelay == 50
HideDelay == 300

Min(a, b) == IF a < b THEN a ELSE b
Max(a, b) == IF a > b THEN a ELSE b
Sign(a) == IF a > 0 THEN 1 ELSE IF a < 0 THEN -1 ELSE 0

Pt(px, py) == [x |-> px, y |-> py]

RECURSIVE SeqMin(_), SeqMax(_)
SeqMin(s) == IF Len(s) = 1 THEN s[1] ELSE Min(s[1], SeqMin(Tail(s)))
SeqMax(s) == IF Len(s) = 1 THEN s[1] ELSE Max(s[1], SeqMax(Tail(s)))

RECURSIVE Flatten(_)
Flatten(ss) == IF ss = <<>> THEN <<>> ELSE ss[1] \o Flatten(Tail(ss))

\* ------------------------------------------------------- map documents
\* A raw object of the walls layer.  An absent polygon or points array is
\* the empty sequence, an absent radius or rotation is 0 (both falsy).
RawObj(px, py, w, h, rot, poly, rad, pts) ==
    [x |-> px, y |-> py, width |-> w, height |-> h, rotation |-> rot,
     polygon |-> poly, radius |-> rad, points |-> pts]

RawObjects == <<
    RawObj(100, 100, 50, 30, 0, <<>>, 0, <<>>),
    RawObj(100, 100, 50, 50, 0, <<>>, 0, <<>>),
    RawObj(100, 96, 40, 20, 180, <<>>, 0, <<>>),
    RawObj(50, 50, 0, 0, 0, <<Pt(0, 0), Pt(120, 0), Pt(0, 120)>>, 0, <<>>),
    RawObj(20, 20, 0, 0, 0, <<Pt(0, 0), Pt(40, 0), Pt(40, 40), Pt(0, 40)>>, 0, <<>>),
    RawObj(30, 60, 0, 0, 0, <<>>, 20, <<>>),
    RawObj(60, 10, 30, 10, 90, <<Pt(0, 0), Pt(30, 0)>>, 0, <<>>)
>>

\* Strictly increasing selections of at most MaxObstacles catalogue entries.
RECURSIVE Selections(_, _)
Selections(from, n) ==
    IF n = 0 THEN {<<>>}
    ELSE {<<>>} \cup UNION {{<<i>> \o s : s \in Selections(i + 1, n - 1)} :
                              i \in from..Len(RawObjects)}

ObjectLists == {[k \in 1..Len(sel) |-> RawObjects[sel[k]]] :
                   sel \in Selections(1, MaxObstacles)}

\* Map metadata: absent (0, falsy) or a 4 x 3 grid of 30 x 40 tiles.
MapMetas == {[width |-> 0, height |-> 0, tilewidth |-> 0, tileheight |-> 0],
             [width |-> 4, height |-> 3, tilewidth |-> 30, tileheight |-> 40]}

MapDocs == {[objects |-> objs, width |-> m.width, height |-> m.height,
             tilewidth |-> m.tilewidth, tileheight |-> m.tileheight] :
               objs \in ObjectLists, m \in MapMetas}

\* ------------------------------------------------------------------ state
VARIABLES
    mapData,          \* the document fetch('wallspro.tmj') yields
    collisionLayer,   \* MapManager.collisionLayer (null is the empty list)
    width, height,    \* MapManager.width, .height (tiles)
    tileWidth, tileHeight,
    spatialGrid,      \* MapManager.spatialGrid: cell key -> obstacle indices
    player,           \* Player x, y, width, height
    moves,            \* number of Player.move calls so far
    lastMove,         \* the last Player.move call since the last load:
                      \* its deltas and the position it started from
    raised,           \* the last caller of checkCollision ended in an exception
    lastLoad,         \* how the last loadCollisionData run ended
    probe,            \* last testPolygonCollision call and its outcome
    housesData,       \* the layers fetch('houses.tmj') yields
    housesLoad,       \* state of the loadHouseAreas promise
    houseAreas,       \* HouseInteractionManager.houseAreas
    currentHouse,     \* index into houseAreas of .currentHouse, 0 for null
    lastPoll,         \* body position of the last zone scan
    gameState,        \* AdventureGame.gameState
    startCalls,       \* where each startGame call stands
    loops,            \* pending requestAnimationFrame callbacks of gameLoop
    lastFrame,        \* gameState the last run of the loop body saw; tick
                      \* flips on every run of the body
    call,             \* the last direct call of a geometric predicate:
                      \* its arguments and what it returned
    sinceCheck,       \* Date.now() - lastCheckTime, capped at checkInterval
    button,           \* the interaction button: whether it exists, its
                      \* display and its opacity
    hideTimers,       \* time left on the pending hide callbacks, oldest first
    showTimers        \* time left on the pending show callbacks, oldest first

vars == <<mapData, collisionLayer, width, height, tileWidth, tileHeight,
          spatialGrid, player, moves, lastMove, raised, lastLoad, probe,
          housesData, housesLoad, houseAreas, currentHouse, lastPoll,
          gameState, startCalls, loops, lastFrame, call,
          sinceCheck, button, hideTimers, showTimers>>

pollVars == <<sinceCheck, button, hideTimers, showTimers>>

gameVars == <<gameState, startCalls, loops, lastFrame>>

zoneVars == <<housesData, housesLoad, houseAreas, currentHouse, lastPoll>>

mapVars == <<collisionLayer, width, height, tileWidth, tileHeight, spatialGrid>>

\* ------------------------------------------------------- shape classifier
\* detectShapeType without the three-vertex case.
detectShapeTypeNoTriangle(obj) ==
    IF Len(obj.polygon) >= 3 THEN "polygon"
    ELSE IF obj.radius # 0 \/ (obj.width = obj.height /\ obj.width > 0)
         THEN "circle"
         ELSE "rectangle"

detectShapeType(obj) ==
    IF Len(obj.polygon) >= 3
    THEN IF Len(obj.polygon) = 3 THEN "triangle" ELSE "polygon"
    ELSE IF obj.radius # 0 \/ (obj.width = obj.height /\ obj.width > 0)
         THEN "circle"
         ELSE IF obj.rotation # 0 THEN "rectangle" ELSE "rectangle"

\* The obstacle loadCollisionData builds from a raw object.  radius2 is
\* twice the radius field (0 when the field is null).
MakeObstacle(obj) ==
    LET shape == detectShapeType(obj) IN
    [x |-> obj.x, y |-> obj.y, width |-> obj.width, height |-> obj.height,
     rotation |-> obj.rotation, shape |-> shape, polygon |-> obj.polygon,
     radius2 |-> IF obj.radius # 0 THEN 2 * obj.radius
                 ELSE IF shape = "circle" THEN Min(obj.width, obj.height)
                 ELSE 0,
     points |-> obj.points]

\* ------------------------------------------------------------ spatial grid
EmptyGrid == [key \in {} |-> <<>>]

\* Bounding box updateSpatialGrid indexes an obstacle by.
GridBBox(wall) ==
    IF wall.shape = "polygon" /\ Len(wall.polygon) > 0
    THEN LET xs == [k \in 1..Len(wall.polygon) |-> wall.x + wall.polygon[k].x]
             ys == [k \in 1..Len(wall.polygon) |-> wall.y + wall.polygon[k].y]
         IN [minX |-> SeqMin(xs), minY |-> SeqMin(ys),
             maxX |-> SeqMax(xs), maxY |-> SeqMax(ys)]
    ELSE [minX |-> wall.x, minY |-> wall.y,
          maxX |-> wall.x + wall.width, maxY |-> wall.y + wall.height]

\* The cell range with the quotients truncated toward zero.
CellsOfTruncating(minX, minY, maxX, maxY) ==
    LET Trunc(a) == IF a >= 0 THEN a \div gridSize ELSE -((-a) \div gridSize)
    IN {<<gx, gy>> : gx \in Trunc(minX)..Trunc(maxX),
                     gy \in Trunc(minY)..Trunc(maxY)}

\* Math.floor(v / gridSize) for each edge; \div rounds down as Math.floor does.
CellsOf(minX, minY, maxX, maxY) ==
    {<<gx, gy>> : gx \in (minX \div gridSize)..(maxX \div gridSize),
                  gy \in (minY \div gridSize)..(maxY \div gridSize)}

\* One iteration of the loop of updateSpatialGrid: push index i (0-based)
\* onto every cell of the obstacle's bounding box.
GridInsert(grid, i, wall) ==
    LET b == GridBBox(wall)
        cells == CellsOf(b.minX, b.minY, b.maxX, b.maxY)
    IN [key \in (DOMAIN grid) \cup cells |->
          (IF key \in DOMAIN grid THEN grid[key] ELSE <<>>)
          \o (IF key \in cells THEN <<i>> ELSE <<>>)]

RECURSIVE GridFill(_, _, _)
GridFill(grid, layer, i) ==
    IF i >= Len(layer) THEN grid
    ELSE GridFill(GridInsert(grid, i, layer[i + 1]), layer, i + 1)

\* spatialGrid.clear() followed by the refill loop.
updateSpatialGrid(grid, layer) == GridFill(EmptyGrid, layer, 0)

\* -------------------------------------------------------------- narrow phase
\* rectCollision with inclusive comparisons.
rectCollisionInclusive(x1, y1, w1, h1, x2, y2, w2, h2) ==
    x1 <= x2 + w2 /\ x1 + w1 >= x2 /\ y1 <= y2 + h2 /\ y1 + h1 >= y2

\* rectCollision with its first comparison inclusive.
rectCollisionHalfOpen(x1, y1, w1, h1, x2, y2, w2, h2) ==
    x1 <= x2 + w2 /\ x1 + w1 > x2 /\ y1 < y2 + h2 /\ y1 + h1 > y2

rectCollision(x1, y1, w1, h1, x2, y2, w2, h2) ==
    x1 < x2 + w2 /\ x1 + w1 > x2 /\ y1 < y2 + h2 /\ y1 + h1 > y2

\* checkCircleCollision with distance <= radius + playerRadius.
checkCircleCollisionInclusive(playerX, playerY, playerWidth, playerHeight, circle) ==
    LET r2 == IF circle.radius2 # 0 THEN circle.radius2
              ELSE Min(circle.width, circle.height)
        dx2 == (2 * playerX + playerWidth) - (2 * circle.x + r2)
        dy2 == (2 * playerY + playerHeight) - (2 * circle.y + r2)
        pr2 == Min(playerWidth, playerHeight)
    IN dx2 * dx2 + dy2 * dy2 <= (r2 + pr2) * (r2 + pr2)

\* distance < radius + playerRadius, on doubled quantities.
checkCircleCollision(playerX, playerY, playerWidth, playerHeight, circle) ==
    LET cx2 == 2 * circle.x + (IF circle.radius2 # 0 THEN circle.radius2 ELSE circle.width)
        cy2 == 2 * circle.y + (IF circle.radius2 # 0 THEN circle.radius2 ELSE circle.height)
        r2 == IF circle.radius2 # 0 THEN circle.radius2
              ELSE Min(circle.width, circle.height)
        dx2 == (2 * playerX + playerWidth) - cx2
        dy2 == (2 * playerY + playerHeight) - cy2
        pr2 == Min(playerWidth, playerHeight)
    IN r2 + pr2 > 0 /\ dx2 * dx2 + dy2 * dy2 < (r2 + pr2) * (r2 + pr2)

\* alpha >= 0 && beta >= 0 && gamma >= 0; with denom = 0 the weights are
\* NaN or infinite and the conjunction is false.
pointInTriangle(point, a, b, c) ==
    LET denom == (b.y - c.y) * (a.x - c.x) + (c.x - b.x) * (a.y - c.y)
        alphaN == (b.y - c.y) * (point.x - c.x) + (c.x - b.x) * (point.y - c.y)
        betaN == (c.y - a.y) * (point.x - c.x) + (a.x - c.x) * (point.y - c.y)
        sg == Sign(denom)
    IN /\ denom # 0
       /\ alphaN * sg >= 0
       /\ betaN * sg >= 0
       /\ (denom - alphaN - betaN) * sg >= 0

\* The four corners of the body, in the order the code lists them.
PlayerCorners(playerX, playerY, playerWidth, playerHeight) ==
    <<Pt(playerX, playerY), Pt(playerX + playerWidth, playerY),
      Pt(playerX, playerY + playerHeight),
      Pt(playerX + playerWidth, playerY + playerHeight)>>

PointInRect(point, playerX, playerY, playerWidth, playerHeight) ==
    /\ point.x >= playerX /\ point.x <= playerX + playerWidth
    /\ point.y >= playerY /\ point.y <= playerY + playerHeight

\* Triangle vertices, doubled: explicit points, else apex at top centre.
TrianglePoints2(triangle) ==
    IF triangle.points # <<>>
    THEN [k \in 1..Len(triangle.points) |->
            Pt(2 * triangle.points[k].x, 2 * triangle.points[k].y)]
    ELSE <<Pt(2 * triangle.x + triangle.width, 2 * triangle.y),
           Pt(2 * triangle.x, 2 * (triangle.y + triangle.height)),
           Pt(2 * (triangle.x + triangle.width), 2 * (triangle.y + triangle.height))>>

\* checkTriangleCollision without its second loop.
checkTriangleCollisionCornersOnly(playerX, playerY, playerWidth, playerHeight, triangle) ==
    LET points == TrianglePoints2(triangle)
        corners == PlayerCorners(2 * playerX, 2 * playerY,
                                 2 * playerWidth, 2 * playerHeight)
    IN \E k \in 1..4 : pointInTriangle(corners[k], points[1], points[2], points[3])

checkTriangleCollision(playerX, playerY, playerWidth, playerHeight, triangle) ==
    LET points == TrianglePoints2(triangle)
        corners == PlayerCorners(2 * playerX, 2 * playerY,
                                 2 * playerWidth, 2 * playerHeight)
    IN \/ \E k \in 1..4 : pointInTriangle(corners[k], points[1], points[2], points[3])
       \/ \E k \in 1..Len(points) :
            PointInRect(points[k], 2 * playerX, 2 * playerY,
                        2 * playerWidth, 2 * playerHeight)

CosDeg(rotation) ==
    CASE rotation % 360 = 0 -> 1
      [] rotation % 360 = 90 -> 0
      [] rotation % 360 = 180 -> -1
      [] rotation % 360 = 270 -> 0

SinDeg(rotation) ==
    CASE rotation % 360 = 0 -> 0
      [] rotation % 360 = 90 -> 1
      [] rotation % 360 = 180 -> 0
      [] rotation % 360 = 270 -> -1

getRotatedCorners(px, py, w, h, rotation) ==
    LET cos == CosDeg(rotation)
        sin == SinDeg(rotation)
        corners == <<Pt(0, 0), Pt(w, 0), Pt(w, h), Pt(0, h)>>
    IN [k \in 1..4 |-> Pt(px + corners[k].x * cos - corners[k].y * sin,
                          py + corners[k].x * sin + corners[k].y * cos)]

projectShape(shape, axis) ==
    LET dots == [k \in 1..Len(shape) |-> shape[k].x * axis.x + shape[k].y * axis.y]
    IN [min |-> SeqMin(dots), max |-> SeqMax(dots)]

overlap(proj1, proj2) == proj1.max >= proj2.min /\ proj2.max >= proj1.min

\* The axis is the edge normal; dividing it by its positive length does not
\* change the comparison of the projections.  A zero-length edge makes the
\* axis NaN, every comparison false, and the answer "no collision".
EdgeAxisOverlaps(currentShape, otherShape, i) ==
    LET p1 == currentShape[i]
        p2 == currentShape[(i % Len(currentShape)) + 1]
        axis == Pt(p2.y - p1.y, p1.x - p2.x)
    IN /\ ~(axis.x = 0 /\ axis.y = 0)
       /\ overlap(projectShape(currentShape, axis), projectShape(otherShape, axis))

satCollision(shape1, shape2) ==
    /\ \A i \in 1..Len(shape1) : EdgeAxisOverlaps(shape1, shape2, i)
    /\ \A i \in 1..Len(shape2) : EdgeAxisOverlaps(shape2, shape1, i)

checkRotatedRectangleCollision(playerX, playerY, playerWidth, playerHeight, wall) ==
    IF wall.rotation = 0
    THEN rectCollision(playerX, playerY, playerWidth, playerHeight,
                       wall.x, wall.y, wall.width, wall.height)
    ELSE satCollision(getRotatedCorners(playerX, playerY, playerWidth, playerHeight, 0),
                      getRotatedCorners(wall.x, wall.y, wall.width, wall.height,
                                        wall.rotation))

\* Edge i of the ray-casting loop (j is the previous vertex, cyclically)
\* toggles `inside`.
RayCrosses(point, polygon, i) ==
    LET j == IF i = 1 THEN Len(polygon) ELSE i - 1
        d == polygon[j].y - polygon[i].y
        n == (polygon[j].x - polygon[i].x) * (point.y - polygon[i].y)
    IN /\ (polygon[i].y > point.y) # (polygon[j].y > point.y)
       /\ IF d > 0 THEN (point.x - polygon[i].x) * d < n
                   ELSE (point.x - polygon[i].x) * d > n

\* pointInPolygon with the loop left before the closing edge (i = 0, j = last).
pointInPolygonOpen(point, polygon) ==
    Cardinality({i \in 2..Len(polygon) : RayCrosses(point, polygon, i)}) % 2 = 1

pointInPolygon(point, polygon) ==
    Cardinality({i \in 1..Len(polygon) : RayCrosses(point, polygon, i)}) % 2 = 1

\* |denom| < 1e-10 is denom = 0 on integers; t and u in [0, 1].
lineIntersection(x1, y1, x2, y2, x3, y3, x4, y4) ==
    LET denom == (x1 - x2) * (y3 - y4) - (y1 - y2) * (x3 - x4)
        tN == (x1 - x3) * (y3 - y4) - (y1 - y3) * (x3 - x4)
        uN == -((x1 - x2) * (y1 - y3) - (y1 - y2) * (x1 - x3))
        sg == Sign(denom)
    IN /\ denom # 0
       /\ tN * sg >= 0 /\ tN * sg <= denom * sg
       /\ uN * sg >= 0 /\ uN * sg <= denom * sg

rectanglePolygonIntersection(rectX, rectY, rectWidth, rectHeight, polygonPoints) ==
    LET rectEdges ==
          <<[x1 |-> rectX, y1 |-> rectY, x2 |-> rectX + rectWidth, y2 |-> rectY],
            [x1 |-> rectX + rectWidth, y1 |-> rectY,
             x2 |-> rectX + rectWidth, y2 |-> rectY + rectHeight],
            [x1 |-> rectX, y1 |-> rectY + rectHeight,
             x2 |-> rectX + rectWidth, y2 |-> rectY + rectHeight],
            [x1 |-> rectX, y1 |-> rectY, x2 |-> rectX, y2 |-> rectY + rectHeight]>>
    IN \E i \in 1..Len(polygonPoints) : \E e \in 1..4 :
         LET p1 == polygonPoints[i]
             p2 == polygonPoints[(i % Len(polygonPoints)) + 1]
         IN lineIntersection(rectEdges[e].x1, rectEdges[e].y1,
                             rectEdges[e].x2, rectEdges[e].y2,
                             p1.x, p1.y, p2.x, p2.y)

WorldPoints(shape) ==
    [k \in 1..Len(shape.polygon) |->
       Pt(shape.x + shape.polygon[k].x, shape.y + shape.polygon[k].y)]

\* checkPolygonCollision without the edge intersection test.
checkPolygonCollisionNoEdges(playerX, playerY, playerWidth, playerHeight, polygon) ==
    IF Len(polygon.polygon) < 3 THEN FALSE
    ELSE LET worldPoints == WorldPoints(polygon)
             corners == PlayerCorners(playerX, playerY, playerWidth, playerHeight)
         IN \/ \E k \in 1..4 : pointInPolygon(corners[k], worldPoints)
            \/ \E k \in 1..Len(worldPoints) :
                 PointInRect(worldPoints[k], playerX, playerY, playerWidth, playerHeight)

checkPolygonCollision(playerX, playerY, playerWidth, playerHeight, polygon) ==
    IF Len(polygon.polygon) < 3 THEN FALSE
    ELSE LET worldPoints == WorldPoints(polygon)
             corners == PlayerCorners(playerX, playerY, playerWidth, playerHeight)
         IN \/ \E k \in 1..4 : pointInPolygon(corners[k], worldPoints)
            \/ \E k \in 1..Len(worldPoints) :
                 PointInRect(worldPoints[k], playerX, playerY, playerWidth, playerHeight)
            \/ rectanglePolygonIntersection(playerX, playerY, playerWidth,
                                            playerHeight, worldPoints)

checkShapeCollision(playerX, playerY, playerWidth, playerHeight, wall) ==
    CASE wall.shape = "circle" ->
           checkCircleCollision(playerX, playerY, playerWidth, playerHeight, wall)
      [] wall.shape = "triangle" ->
           checkTriangleCollision(playerX, playerY, playerWidth, playerHeight, wall)
      [] wall.shape = "polygon" ->
           checkPolygonCollision(playerX, playerY, playerWidth, playerHeight, wall)
      [] OTHER ->
           checkRotatedRectangleCollision(playerX, playerY, playerWidth, playerHeight, wall)

\* -------------------------------------------------------------- broad phase
MapWidth == width * tileWidth
MapHeight == height * tileHeight

\* OutOfBounds without the x < 0 test.
OutOfBoundsNoLeftEdge(x, y, w, h) ==
    y < 0 \/ x + w > MapWidth \/ y + h > MapHeight

OutOfBounds(x, y, w, h) ==
    x < 0 \/ y < 0 \/ x + w > MapWidth \/ y + h > MapHeight

\* Cell keys in the order of the two nested loops (gridX outer, gridY inner).
VisitedCells(x, y, w, h) ==
    LET minGridX == x \div gridSize
        maxGridX == (x + w) \div gridSize
        minGridY == y \div gridSize
        maxGridY == (y + h) \div gridSize
        ny == maxGridY - minGridY + 1
        n == (maxGridX - minGridX + 1) * ny
    IN [k \in 1..n |-> <<minGridX + ((k - 1) \div ny), minGridY + ((k - 1) % ny)>>]

\* spatialGrid.get(key) || []
CellObjects(key) ==
    IF key \in DOMAIN spatialGrid THEN spatialGrid[key] ELSE <<>>

\* Obstacle indices in the order checkCollision meets them (with repeats).
Candidates(x, y, w, h) ==
    LET cells == VisitedCells(x, y, w, h)
    IN Flatten([k \in 1..Len(cells) |-> CellObjects(cells[k])])

\* What a call checkCollision(x, y, w, h) does: return true ("collision"),
\* return false ("clear") or throw the TypeError of reading .shape of
\* undefined ("raise") when a cell holds an index past the end of
\* collisionLayer.  The first candidate that collides or is undefined decides.
CollisionOutcome(x, y, w, h) ==
    IF OutOfBounds(x, y, w, h) THEN "collision"
    ELSE LET cand == Candidates(x, y, w, h)
             stops == {k \in 1..Len(cand) :
                         \/ cand[k] >= Len(collisionLayer)
                         \/ checkShapeCollision(x, y, w, h, collisionLayer[cand[k] + 1])}
         IN IF stops = {} THEN "clear"
            ELSE LET k == CHOOSE m \in stops : \A o \in stops : m <= o
                 IN IF cand[k] >= Len(collisionLayer) THEN "raise" ELSE "collision"

checkCollision(x, y, w, h) == CollisionOutcome(x, y, w, h) = "collision"

\* ------------------------------------------------------------------ inputs
PlayerStarts == {[x |-> 0, y |-> 0, width |-> 10, height |-> 10],
                 [x |-> 80, y |-> 100, width |-> 10, height |-> 10]}

Delta(deltaX, deltaY) == [dx |-> deltaX, dy |-> deltaY]

MoveFrom(deltaX, deltaY, fromX, fromY) ==
    [dx |-> deltaX, dy |-> deltaY, x |-> fromX, y |-> fromY]

Deltas == {Delta(-5, -5), Delta(30, 0), Delta(0, 10), Delta(30, 10), Delta(0, -5)}

QueryRects == {[x |-> qx, y |-> qy, width |-> 10, height |-> 10] :
                 qx \in {0, 80, 95, 150}, qy \in {60, 95, 110}}
              \cup {[x |-> 40, y |-> 40, width |-> 70, height |-> 70],
                    [x |-> -5, y |-> 0, width |-> 10, height |-> 10],
                    [x |-> 115, y |-> 100, width |-> 10, height |-> 10]}

NoMove == MoveFrom(0, 0, 0, 0)

NoProbe == [x |-> 0, y |-> 0, width |-> 0, height |-> 0, outcome |-> "none"]

NoPoll == [x |-> 0, y |-> 0, ran |-> FALSE]

NoCall == [fn |-> "none"]

NoButton == [exists |-> FALSE, display |-> "none", opacity |-> 0]

\* A raw object of a houses.tmj layer.
RawZone(px, py, w, h, poly, isEllipse) ==
    [x |-> px, y |-> py, width |-> w, height |-> h,
     polygon |-> poly, ellipse |-> isEllipse]

RawZones == <<
    RawZone(60, 80, 60, 60, <<>>, FALSE),
    RawZone(90, 100, 60, 60, <<>>, FALSE),
    RawZone(70, 90, 40, 20, <<>>, TRUE),
    RawZone(100, 90, 0, 0, <<Pt(0, 0), Pt(40, 0), Pt(40, 40), Pt(0, 40)>>, FALSE)
>>

\* Layer lists: at most MaxZones layers, one object each, no object twice.
RECURSIVE Arrangements(_)
Arrangements(n) ==
    IF n = 0 THEN {<<>>}
    ELSE LET shorter == Arrangements(n - 1)
         IN shorter \cup {Append(a, i) : a \in {b \in shorter : Len(b) = n - 1},
                                          i \in 1..Len(RawZones)}

ZoneDocs == {[k \in 1..Len(a) |-> <<RawZones[a[k]]>>] :
               a \in {b \in Arrangements(MaxZones) :
                        \A i, j \in 1..Len(b) : i # j => b[i] # b[j]}}

\* ----------------------------------------------------------------- actions
Constructed ==
    /\ collisionLayer = <<>>
    /\ width = 0
    /\ height = 0
    /\ tileWidth = InitialTileSize
    /\ tileHeight = InitialTileSize
    /\ spatialGrid = EmptyGrid
    /\ moves = 0
    /\ lastMove = NoMove
    /\ raised = FALSE
    /\ lastLoad = "none"
    /\ probe = NoProbe
    /\ housesLoad = "pending"
    /\ houseAreas = <<>>
    /\ currentHouse = 0
    /\ lastPoll = NoPoll
    /\ gameState = "loading"
    /\ startCalls = [i \in 1..MaxStarts |-> "idle"]
    /\ loops = 0
    /\ lastFrame = [state |-> "none", tick |-> FALSE]
    /\ call = NoCall
    /\ sinceCheck = checkInterval
    /\ button = NoButton
    /\ hideTimers = <<>>
    /\ showTimers = <<>>

Init ==
    /\ Constructed
    /\ mapData \in MapDocs
    /\ housesData = <<>>
    /\ player \in PlayerStarts

\* loadCollisionData: the try block when fetch and parse succeed, the catch
\* block when either throws.
loadCollisionDataRun(fails) ==
    /\ IF ~fails
       THEN LET layer == [k \in 1..Len(mapData.objects) |->
                            MakeObstacle(mapData.objects[k])]
            IN /\ collisionLayer' = layer
               /\ width' = (IF mapData.width # 0 THEN mapData.width ELSE DefaultWidth)
               /\ height' = (IF mapData.height # 0 THEN mapData.height ELSE DefaultHeight)
               /\ tileWidth' = (IF mapData.tilewidth # 0 THEN mapData.tilewidth
                                ELSE DefaultTileWidth)
               /\ tileHeight' = (IF mapData.tileheight # 0 THEN mapData.tileheight
                                 ELSE DefaultTileHeight)
               /\ spatialGrid' = updateSpatialGrid(spatialGrid, layer)
               /\ lastLoad' = "ok"
       ELSE /\ collisionLayer' = <<>>
            /\ width' = DefaultWidth
            /\ height' = DefaultHeight
            /\ tileWidth' = DefaultTileWidth
            /\ tileHeight' = DefaultTileHeight
            /\ lastLoad' = "failed"
            /\ UNCHANGED spatialGrid
    /\ lastMove' = NoMove
    /\ UNCHANGED <<mapData, player, moves, raised, probe, zoneVars, call, pollVars>>

\* A loadCollisionData run seen on its own.
loadCollisionData(fails) ==
    /\ loadCollisionDataRun(fails)
    /\ UNCHANGED gameVars

\* Player.move sliding a rejected axis by one pixel instead of keeping it.
MoveResultSlide(deltaX, deltaY) ==
    LET xOut == IF deltaX # 0
                THEN CollisionOutcome(player.x + deltaX, player.y,
                                      player.width, player.height)
                ELSE "skip"
        newX == IF xOut = "clear" THEN player.x + deltaX
                ELSE player.x + Sign(deltaX)
        yOut == IF deltaY # 0 /\ xOut # "raise"
                THEN CollisionOutcome(newX, player.y + deltaY,
                                      player.width, player.height)
                ELSE "skip"
        newY == IF yOut = "clear" THEN player.y + deltaY
                ELSE player.y + Sign(deltaY)
    IN [x |-> newX, y |-> newY, raised |-> (xOut = "raise" \/ yOut = "raise")]

\* Player.move(deltaX, deltaY).  A throwing checkCollision aborts the call:
\* nothing after the throwing test runs.
MoveResult(deltaX, deltaY) ==
    LET xOut == IF deltaX # 0
                THEN CollisionOutcome(player.x + deltaX, player.y,
                                      player.width, player.height)
                ELSE "skip"
        newX == IF xOut = "clear" THEN player.x + deltaX ELSE player.x
        yOut == IF deltaY # 0 /\ xOut # "raise"
                THEN CollisionOutcome(newX, player.y + deltaY,
                                      player.width, player.height)
                ELSE "skip"
        newY == IF yOut = "clear" THEN player.y + deltaY ELSE player.y
    IN [x |-> newX, y |-> newY, raised |-> (xOut = "raise" \/ yOut = "raise")]

moveCore(deltaX, deltaY) ==
    /\ moves < MaxMoves
    /\ LET r == MoveResult(deltaX, deltaY)
       IN /\ player' = [player EXCEPT !.x = r.x, !.y = r.y]
          /\ raised' = r.raised
    /\ moves' = moves + 1
    /\ lastMove' = MoveFrom(deltaX, deltaY, player.x, player.y)

moveRun(deltaX, deltaY) ==
    /\ moveCore(deltaX, deltaY)
    /\ UNCHANGED <<mapData, mapVars, lastLoad, probe, zoneVars, call, pollVars>>

\* A Player.move call seen on its own.
move(deltaX, deltaY) ==
    /\ moveRun(deltaX, deltaY)
    /\ UNCHANGED gameVars

\* testPolygonCollision emptying the grid as it answers.
testPolygonCollisionClearsGrid(q) ==
    /\ probe' = [x |-> q.x, y |-> q.y, width |-> q.width, height |-> q.height,
                 outcome |-> CollisionOutcome(q.x, q.y, q.width, q.height)]
    /\ raised' = (probe'.outcome = "raise")
    /\ spatialGrid' = EmptyGrid
    /\ UNCHANGED <<mapData, collisionLayer, width, height, tileWidth, tileHeight,
                   player, moves, lastMove, lastLoad, zoneVars,
                   gameVars, call, pollVars>>

\* window.testPolygonCollision(x, y, width, height)
testPolygonCollision(q) ==
    /\ probe' = [x |-> q.x, y |-> q.y, width |-> q.width, height |-> q.height,
                 outcome |-> CollisionOutcome(q.x, q.y, q.width, q.height)]
    /\ raised' = (probe'.outcome = "raise")
    /\ UNCHANGED <<mapData, mapVars, player, moves, lastMove, lastLoad, zoneVars,
                   gameVars, call, pollVars>>

\* ---------------------------------------------------------- zone membership
\* The houseData record loadHouseAreas pushes for an object of a layer.
MakeHouse(obj, layerNumber) ==
    [layerNumber |-> layerNumber,
     x |-> obj.x, y |-> obj.y, width |-> obj.width, height |-> obj.height,
     polygon |-> IF Len(obj.polygon) >= 3 THEN obj.polygon ELSE <<>>,
     shape |-> IF Len(obj.polygon) >= 3 THEN "polygon"
               ELSE IF obj.ellipse THEN "ellipse" ELSE "rectangle"]

\* HouseInteractionManager.pointInPolygon (a copy of the MapManager method).
houseRayCrosses(point, polygon, i) ==
    LET j == IF i = 1 THEN Len(polygon) ELSE i - 1
        slopeD == polygon[j].y - polygon[i].y
        slopeN == (polygon[j].x - polygon[i].x) * (point.y - polygon[i].y)
        lhs == point.x - polygon[i].x
    IN /\ (polygon[i].y > point.y) # (polygon[j].y > point.y)
       /\ \/ slopeD > 0 /\ lhs * slopeD < slopeN
          \/ slopeD < 0 /\ lhs * slopeD > slopeN

housePointInPolygon(point, polygon) ==
    Cardinality({i \in 1..Len(polygon) : houseRayCrosses(point, polygon, i)}) % 2 = 1

\* checkHousePolygonCollision with the edge intersection test of the walls.
checkHousePolygonCollisionWithEdges(playerX, playerY, playerWidth, playerHeight, house) ==
    checkPolygonCollision(playerX, playerY, playerWidth, playerHeight, house)

checkHousePolygonCollision(playerX, playerY, playerWidth, playerHeight, house) ==
    IF Len(house.polygon) < 3 THEN FALSE
    ELSE LET worldPoints == WorldPoints(house)
             corners == PlayerCorners(playerX, playerY, playerWidth, playerHeight)
         IN \/ \E k \in 1..4 : housePointInPolygon(corners[k], worldPoints)
            \/ \E k \in 1..Len(worldPoints) :
                 PointInRect(worldPoints[k], playerX, playerY, playerWidth, playerHeight)

\* checkHouseEllipseCollision testing the body's centre, not its corners.
checkHouseEllipseCollisionByCentre(playerX, playerY, playerWidth, playerHeight, house) ==
    LET rx2 == house.width
        ry2 == house.height
        dx2 == (2 * playerX + playerWidth) - (2 * house.x + house.width)
        dy2 == (2 * playerY + playerHeight) - (2 * house.y + house.height)
    IN /\ rx2 # 0 /\ ry2 # 0
       /\ dx2 * dx2 * ry2 * ry2 + dy2 * dy2 * rx2 * rx2 <= rx2 * rx2 * ry2 * ry2

\* normalizedX + normalizedY <= 1 on doubled quantities; a zero half-axis
\* makes a term infinite or NaN and the comparison false.
checkHouseEllipseCollision(playerX, playerY, playerWidth, playerHeight, house) ==
    LET rx2 == house.width
        ry2 == house.height
        corners == PlayerCorners(2 * playerX, 2 * playerY,
                                 2 * playerWidth, 2 * playerHeight)
    IN \E k \in 1..4 :
         LET dx2 == corners[k].x - (2 * house.x + house.width)
             dy2 == corners[k].y - (2 * house.y + house.height)
         IN /\ rx2 # 0 /\ ry2 # 0
            /\ dx2 * dx2 * ry2 * ry2 + dy2 * dy2 * rx2 * rx2
                 <= rx2 * rx2 * ry2 * ry2

\* checkHouseRectangleCollision with the strict test of the obstacles.
checkHouseRectangleCollisionStrict(playerX, playerY, playerWidth, playerHeight, house) ==
    rectCollision(playerX, playerY, playerWidth, playerHeight,
                  house.x, house.y, house.width, house.height)

checkHouseRectangleCollision(playerX, playerY, playerWidth, playerHeight, house) ==
    ~(\/ playerX + playerWidth < house.x
      \/ playerX > house.x + house.width
      \/ playerY + playerHeight < house.y
      \/ playerY > house.y + house.height)

\* The default branch of the switch: distance from the body's position to
\* the zone centre at most max(width, height) / 2, on doubled quantities.
HouseDistanceFallback(playerX, playerY, house) ==
    LET dx2 == 2 * playerX - (2 * house.x + house.width)
        dy2 == 2 * playerY - (2 * house.y + house.height)
        r2 == Max(house.width, house.height)
    IN r2 >= 0 /\ dx2 * dx2 + dy2 * dy2 <= r2 * r2

\* isInside of the scan loop of checkProximityToHouses.
IsInsideHouse(playerX, playerY, playerWidth, playerHeight, house) ==
    CASE house.shape = "polygon" ->
           checkHousePolygonCollision(playerX, playerY, playerWidth, playerHeight, house)
      [] house.shape = "ellipse" ->
           checkHouseEllipseCollision(playerX, playerY, playerWidth, playerHeight, house)
      [] house.shape = "rectangle" ->
           checkHouseRectangleCollision(playerX, playerY, playerWidth, playerHeight, house)
      [] OTHER -> HouseDistanceFallback(playerX, playerY, house)

InsideIndices(playerX, playerY, playerWidth, playerHeight) ==
    {i \in 1..Len(houseAreas) :
       IsInsideHouse(playerX, playerY, playerWidth, playerHeight, houseAreas[i])}

\* The scan loop without its break: the last zone that is inside.
NearestHouseLastMatch(playerX, playerY, playerWidth, playerHeight) ==
    LET inside == InsideIndices(playerX, playerY, playerWidth, playerHeight)
    IN IF inside = {} THEN 0
       ELSE CHOOSE i \in inside : \A j \in inside : j <= i

\* nearestHouse after the scan loop: the first zone that is inside (the loop
\* breaks there), 0 for null.
NearestHouse(playerX, playerY, playerWidth, playerHeight) ==
    LET inside == InsideIndices(playerX, playerY, playerWidth, playerHeight)
    IN IF inside = {} THEN 0
       ELSE CHOOSE i \in inside : \A j \in inside : i <= j

\* The button after createInteractionButton: made with display none unless
\* it exists already.
createInteractionButton ==
    IF button.exists THEN button
    ELSE [exists |-> TRUE, display |-> "none", opacity |-> 1]

\* The two .then callbacks of loadHouseAreas, or its .catch.
loadHouseAreas(fails) ==
    /\ housesLoad = "pending"
    /\ IF ~fails
       THEN /\ houseAreas' = Flatten([l \in 1..Len(housesData) |->
                                [k \in 1..Len(housesData[l]) |->
                                   MakeHouse(housesData[l][k], l)]])
            /\ housesLoad' = "ok"
            /\ button' = createInteractionButton
       ELSE /\ houseAreas' = <<>>
            /\ housesLoad' = "failed"
            /\ UNCHANGED button
    /\ UNCHANGED <<mapData, mapVars, player, moves, lastMove, raised, lastLoad,
                   probe, housesData, currentHouse, lastPoll, gameVars, call,
                   sinceCheck, hideTimers, showTimers>>

\* The scan without its else-if branch: the zone is kept when the body has
\* left every zone.
checkProximityCoreNoExit(bodyX, bodyY) ==
    IF Len(houseAreas) = 0
    THEN UNCHANGED <<currentHouse, lastPoll, button, hideTimers, showTimers>>
    ELSE LET nearestHouse == NearestHouse(bodyX, bodyY, player.width, player.height)
         IN /\ lastPoll' = [x |-> bodyX, y |-> bodyY, ran |-> TRUE]
            /\ IF nearestHouse # 0 /\ nearestHouse # currentHouse
               THEN /\ currentHouse' = nearestHouse
                    /\ button' = [exists |-> TRUE, display |-> "block", opacity |-> 0]
                    /\ showTimers' = Append(showTimers, ShowDelay)
                    /\ UNCHANGED hideTimers
               ELSE UNCHANGED <<currentHouse, button, hideTimers, showTimers>>

\* The effect of checkProximityToHouses for a body at (bodyX, bodyY) on the
\* zone, the button and its timers: showInteractionButton when a zone other
\* than the current one is found, hideInteractionButton when the current
\* one is lost.
checkProximityCore(bodyX, bodyY) ==
    IF Len(houseAreas) = 0
    THEN UNCHANGED <<currentHouse, lastPoll, button, hideTimers, showTimers>>
    ELSE LET nearestHouse == NearestHouse(bodyX, bodyY, player.width, player.height)
         IN /\ lastPoll' = [x |-> bodyX, y |-> bodyY, ran |-> TRUE]
            /\ IF nearestHouse # 0 /\ nearestHouse # currentHouse
               THEN /\ currentHouse' = nearestHouse
                    /\ button' = [exists |-> TRUE, display |-> "block", opacity |-> 0]
                    /\ showTimers' = Append(showTimers, ShowDelay)
                    /\ UNCHANGED hideTimers
               ELSE IF nearestHouse = 0 /\ currentHouse # 0
               THEN /\ currentHouse' = 0
                    /\ IF button.exists
                       THEN /\ button' = [button EXCEPT !.opacity = 0]
                            /\ hideTimers' = Append(hideTimers, HideDelay)
                       ELSE UNCHANGED <<button, hideTimers>>
                    /\ UNCHANGED showTimers
               ELSE UNCHANGED <<currentHouse, button, hideTimers, showTimers>>

\* The time gate of update that never opens.
gateOpenNever(elapsed) == FALSE

\* update goes on to the scan unless now - lastCheckTime < checkInterval.
gateOpen(elapsed) == ~(elapsed < checkInterval)

\* HouseInteractionManager.update() with the body at (bodyX, bodyY).
updateCore(bodyX, bodyY) ==
    IF gateOpen(sinceCheck)
    THEN /\ sinceCheck' = 0
         /\ checkProximityCore(bodyX, bodyY)
    ELSE UNCHANGED <<currentHouse, lastPoll, pollVars>>

\* update() called in a frame that does not move the body.
houseUpdate ==
    /\ updateCore(player.x, player.y)
    /\ UNCHANGED <<mapData, mapVars, player, moves, lastMove, raised, lastLoad,
                   probe, housesData, housesLoad, houseAreas, gameVars, call>>

\* checkProximityToHouses called on its own, whatever the gate.
checkProximityToHouses ==
    /\ checkProximityCore(player.x, player.y)
    /\ UNCHANGED <<mapData, mapVars, player, moves, lastMove, raised, lastLoad,
                   probe, housesData, housesLoad, houseAreas, gameVars, call,
                   sinceCheck>>

RECURSIVE Elapse(_, _)
Elapse(timers, dt) ==
    IF timers = <<>> THEN <<>>
    ELSE <<Max(timers[1] - dt, 0)>> \o Elapse(Tail(timers), dt)

\* Time passes by dt; no timer that is due is passed over.
tick(dt) ==
    /\ \A k \in 1..Len(hideTimers) : hideTimers[k] > 0
    /\ \A k \in 1..Len(showTimers) : showTimers[k] > 0
    /\ sinceCheck' = Min(sinceCheck + dt, checkInterval)
    /\ hideTimers' = Elapse(hideTimers, dt)
    /\ showTimers' = Elapse(showTimers, dt)
    /\ UNCHANGED <<mapData, mapVars, player, moves, lastMove, raised, lastLoad,
                   probe, zoneVars, gameVars, call, button>>

\* The setTimeout callback of hideInteractionButton.
hideCallback ==
    /\ hideTimers # <<>> /\ hideTimers[1] = 0
    /\ hideTimers' = Tail(hideTimers)
    /\ button' = [button EXCEPT !.display = "none"]
    /\ UNCHANGED <<mapData, mapVars, player, moves, lastMove, raised, lastLoad,
                   probe, zoneVars, gameVars, call, sinceCheck, showTimers>>

\* The setTimeout callback of showInteractionButton.
showCallback ==
    /\ showTimers # <<>> /\ showTimers[1] = 0
    /\ showTimers' = Tail(showTimers)
    /\ button' = [button EXCEPT !.opacity = 1]
    /\ UNCHANGED <<mapData, mapVars, player, moves, lastMove, raised, lastLoad,
                   probe, zoneVars, gameVars, call, sinceCheck, hideTimers>>

\* ------------------------------------------------------------ game start
\* The guard of gameLoop without its test.
gameLoopRunsAlways(state) == TRUE

\* gameLoop returns at once unless gameState is 'playing'.
gameLoopRuns(state) == state = "playing"

\* The body of gameLoop under the state it was entered in: update() calls
\* Player.update, which calls Player.move when the input is not zero.
Inputs == Deltas \cup {Delta(0, 0)}

IsMoving(input) == input.dx # 0 \/ input.dy # 0

\* Player.move is called in the frame with this input and throws; read
\* once the move of the frame has set raised.
FrameThrows(input) == IsMoving(input) /\ raised'

\* The rest of update() after Player.update: the zone poll, at the position
\* the body has now.  An exception out of Player.move skips it.
LoopBody(state, input) ==
    /\ lastFrame' = [state |-> state, tick |-> ~lastFrame.tick]
    /\ IF IsMoving(input)
       THEN moveCore(input.dx, input.dy)
       ELSE UNCHANGED <<player, moves, lastMove, raised>>
    /\ IF FrameThrows(input)
       THEN UNCHANGED <<currentHouse, lastPoll, pollVars>>
       ELSE updateCore(player'.x, player'.y)
    /\ UNCHANGED <<mapData, mapVars, lastLoad, probe, housesData, housesLoad,
                   houseAreas, call>>

\* startGame up to its first await; the auth listeners and waitForAuthState
\* call it whenever they see a user.
startGame(i) ==
    /\ startCalls[i] = "idle"
    /\ startCalls' = [startCalls EXCEPT ![i] = "loading"]
    /\ gameState' = "loading"
    /\ UNCHANGED <<mapData, mapVars, player, moves, lastMove, raised, lastLoad,
                   probe, zoneVars, loops, lastFrame, call, pollVars>>

\* An image of call i fails to load and Promise.all rejects into the catch
\* block of startGame.  When it is the player sprite, MapManager.loadAssets
\* of the call goes on by itself (mapGoesOn).
assetsRejected(i, mapGoesOn) ==
    /\ startCalls[i] = "loading"
    /\ startCalls' = [startCalls EXCEPT ![i] = IF mapGoesOn THEN "orphan" ELSE "failed"]
    /\ UNCHANGED <<mapData, mapVars, player, moves, lastMove, raised, lastLoad,
                   probe, zoneVars, gameState, loops, lastFrame, call, pollVars>>

\* The loadCollisionData run of MapManager.loadAssets of call i.
loadAssets(i, fails) ==
    /\ startCalls[i] \in {"loading", "orphan"}
    /\ loadCollisionDataRun(fails)
    /\ startCalls' = [startCalls EXCEPT
                        ![i] = IF startCalls[i] = "loading" THEN "loaded" ELSE "failed"]
    /\ UNCHANGED <<gameState, loops, lastFrame>>

\* startGame after Promise.all: gameState = 'playing', then gameLoop().  An
\* exception out of the loop body leaves no animation frame requested.
startGameDone(i) ==
    /\ startCalls[i] = "loaded"
    /\ startCalls' = [startCalls EXCEPT ![i] = "started"]
    /\ gameState' = "playing"
    /\ IF gameLoopRuns("playing")
       THEN \E input \in Inputs :
              /\ LoopBody("playing", input)
              /\ loops' = IF FrameThrows(input) THEN loops ELSE loops + 1
       ELSE UNCHANGED <<mapData, mapVars, player, moves, lastMove, raised,
                        lastLoad, probe, zoneVars, loops, lastFrame, call, pollVars>>

\* A requestAnimationFrame callback: gameLoop(time).
gameLoop ==
    /\ loops > 0
    /\ IF gameLoopRuns(gameState)
       THEN \E input \in Inputs :
              /\ LoopBody(gameState, input)
              /\ loops' = IF FrameThrows(input) THEN loops - 1 ELSE loops
       ELSE /\ loops' = loops - 1
            /\ UNCHANGED <<mapData, mapVars, player, moves, lastMove, raised,
                           lastLoad, probe, zoneVars, lastFrame, call, pollVars>>
    /\ UNCHANGED <<gameState, startCalls>>

showLogin ==
    /\ gameState' = "login"
    /\ UNCHANGED <<mapData, mapVars, player, moves, lastMove, raised, lastLoad,
                   probe, zoneVars, startCalls, loops, lastFrame, call, pollVars>>

Next ==
    \/ \E fails \in BOOLEAN : loadCollisionData(fails)
    \/ \E d \in Deltas : move(d.dx, d.dy)

Spec == Init /\ [][Next]_vars

\* Frames of any length: moveX = input.x * speed * deltaTime / 1000 with
\* speed 240 and an unclamped deltaTime; a frame a third of a second long
\* moves the body 80 pixels.
LongDeltas == Deltas \cup {Delta(80, 0), Delta(0, 40)}

SweepInit ==
    /\ Constructed
    /\ mapData \in {[objects |-> objs, width |-> 0, height |-> 0,
                      tilewidth |-> 0, tileheight |-> 0] :
                       objs \in {<<>>, <<RawObjects[1]>>,
                                 <<RawObjects[1], RawObjects[5]>>}}
    /\ housesData = <<>>
    /\ player \in PlayerStarts

SweepNext ==
    \/ \E fails \in BOOLEAN : loadCollisionData(fails)
    \/ \E d \in LongDeltas : move(d.dx, d.dy)

SweepSpec == SweepInit /\ [][SweepNext]_vars

GridInit == Init /\ player.x = 0

ZoneInit ==
    /\ Constructed
    /\ mapData = [objects |-> <<>>, width |-> 0, height |-> 0,
                  tilewidth |-> 0, tileheight |-> 0]
    /\ housesData \in ZoneDocs
    /\ player = [x |-> 80, y |-> 100, width |-> 10, height |-> 10]

ZoneNext ==
    \/ \E fails \in BOOLEAN : loadCollisionData(fails)
    \/ \E fails \in BOOLEAN : loadHouseAreas(fails)
    \/ \E d \in Deltas : move(d.dx, d.dy)
    \/ houseUpdate
    \/ tick(ShowDelay)
    \/ hideCallback
    \/ showCallback

ZoneSpec == ZoneInit /\ [][ZoneNext]_vars

\* Three houses documents: no layer, one ellipse, two overlapping rectangles.
PollInit ==
    /\ Constructed
    /\ mapData = [objects |-> <<>>, width |-> 0, height |-> 0,
                  tilewidth |-> 0, tileheight |-> 0]
    /\ housesData \in {<<>>, <<<<RawZones[3]>>>>,
                        <<<<RawZones[1]>>, <<RawZones[2]>>>>}
    /\ player = [x |-> 80, y |-> 100, width |-> 10, height |-> 10]

\* The game loop keeps calling update, time keeps advancing and due timer
\* callbacks are run.
PollLiveSpec ==
    /\ PollInit /\ [][ZoneNext]_vars
    /\ WF_vars(houseUpdate)
    /\ WF_vars(tick(ShowDelay))
    /\ WF_vars(hideCallback)
    /\ WF_vars(showCallback)

GridNext ==
    \/ \E fails \in BOOLEAN : loadCollisionData(fails)
    \/ \E q \in QueryRects : testPolygonCollision(q)

GridSpec == GridInit /\ [][GridNext]_vars

\* Maps whose obstacles lie left of and above the origin, or end exactly on
\* a cell boundary.
BuildSamples == <<
    RawObj(-150, -30, 100, 60, 0, <<>>, 0, <<>>),
    RawObj(100, 100, 100, 100, 0, <<>>, 0, <<>>),
    RawObj(0, 0, 0, 0, 0,
           <<Pt(-20, -120), Pt(100, 0), Pt(50, 100), Pt(-10, 50)>>, 0, <<>>),
    RawObj(250, 50, 40, 40, 0, <<>>, 0, <<>>)
>>

BuildLists ==
    {[k \in 1..Len(sel) |-> BuildSamples[sel[k]]] :
       sel \in {t \in UNION {[1..n -> 1..Len(BuildSamples)] : n \in 0..MaxObstacles} :
                  \A k \in 1..(Len(t) - 1) : t[k] < t[k + 1]}}

BuildInit ==
    /\ Constructed
    /\ mapData \in {[objects |-> objs, width |-> 0, height |-> 0,
                      tilewidth |-> 0, tileheight |-> 0] : objs \in BuildLists}
    /\ housesData = <<>>
    /\ player = [x |-> 0, y |-> 0, width |-> 10, height |-> 10]

BuildSpec == BuildInit /\ [][GridNext]_vars

\* ---------------------------------------------------- direct calls
\* Raw objects handed to the narrow phase one at a time: the catalogue of
\* the map documents and shapes with a zero side.
ShapeSamples == RawObjects \o <<
    RawObj(60, 60, 40, 0, 90, <<>>, 0, <<>>),
    RawObj(100, 100, 0, 30, 0, <<>>, 0, <<>>),
    RawObj(100, 40, 45, 40, 0, <<Pt(0, 0), Pt(45, 40), Pt(0, 40)>>, 0, <<>>),
    RawObj(0, 0, 0, 0, 0, <<Pt(0, 0), Pt(1, 0), Pt(0, 1)>>, 0,
           <<Pt(20, 100), Pt(60, 100), Pt(20, 140)>>),
    RawObj(100, 100, 0, 0, 0, <<Pt(30, 0), Pt(60, 30), Pt(30, 60), Pt(0, 30)>>, 0, <<>>),
    RawObj(100, 50, 0, 0, 0, <<Pt(0, 0), Pt(40, 2), Pt(0, 4), Pt(-5, 2)>>, 0, <<>>),
    RawObj(10, 100, 0, 0, 0,
           <<Pt(0, 0), Pt(60, 0), Pt(60, 60), Pt(30, 20), Pt(0, 60)>>, 0, <<>>)
>>

Bodies == {[x |-> 5 * i, y |-> 5 * j, width |-> 10, height |-> 10] :
             i \in 0..MaxCell, j \in 0..MaxCell}

SmallRects == {[x |-> rx, y |-> ry, width |-> rw, height |-> rh] :
                 rx \in 0..MaxSide, ry \in 0..MaxSide,
                 rw \in 0..MaxSide, rh \in 0..MaxSide}

restVars == <<mapData, mapVars, player, moves, lastMove, raised, lastLoad,
              probe, zoneVars, gameVars, pollVars>>

\* A behaviour of direct calls makes one call and stops.
\* checkShapeCollision(body, wall) as the candidate loop of checkCollision
\* calls it, on the obstacle loadCollisionData makes of a raw object.
narrowPhase(q, obj) ==
    /\ call = NoCall
    /\ LET wall == MakeObstacle(obj)
       IN call' = [fn |-> "checkShapeCollision", body |-> q, obj |-> obj, wall |-> wall,
                   result |-> checkShapeCollision(q.x, q.y, q.width, q.height, wall)]
    /\ UNCHANGED restVars

\* rectCollision(a, b) on two rectangles.
rectPair(a, b) ==
    /\ call = NoCall
    /\ call' = [fn |-> "rectCollision", a |-> a, b |-> b,
                result |-> rectCollision(a.x, a.y, a.width, a.height,
                                         b.x, b.y, b.width, b.height)]
    /\ UNCHANGED restVars

VertexGrid == {Pt(2 * i, 2 * j) : i \in 0..MaxVertex, j \in 0..MaxVertex}

TestPoints == {Pt(i, j) : i \in (-1)..(2 * MaxVertex + 1), j \in (-1)..(2 * MaxVertex + 1)}

Turn(poly, i) ==
    LET n == Len(poly)
        a == poly[i]
        b == poly[(i % n) + 1]
        c == poly[((i + 1) % n) + 1]
    IN (b.x - a.x) * (c.y - a.y) - (b.y - a.y) * (c.x - a.x)

\* Every corner turns the same way, strictly.
IsConvex(poly) ==
    \/ \A i \in 1..Len(poly) : Turn(poly, i) > 0
    \/ \A i \in 1..Len(poly) : Turn(poly, i) < 0

\* Convex triangles and quadrilaterals on the vertex grid, in both
\* orientations and from every starting vertex.
ConvexPolygons ==
    {poly \in {<<a, b, c>> : a, b, c \in VertexGrid}
              \cup {<<a, b, c, d>> : a, b, c, d \in VertexGrid} : IsConvex(poly)}

SpecSquare == <<Pt(0, 0), Pt(10, 0), Pt(10, 10), Pt(0, 10)>>

\* Both pointInPolygon methods on the same point and polygon.
pointTest(point, polygon) ==
    /\ call = NoCall
    /\ call' = [fn |-> "pointInPolygon", point |-> point, polygon |-> polygon,
                result |-> pointInPolygon(point, polygon),
                houseResult |-> housePointInPolygon(point, polygon)]
    /\ UNCHANGED restVars

\* Raw zone objects handed to the membership test one at a time: the
\* catalogue of the houses documents, a thin ellipse, ellipses with a zero
\* axis and a rectangle with a zero side.
ZoneSamples == RawZones \o <<
    RawZone(70, 90, 40, 4, <<>>, TRUE),
    RawZone(100, 60, 0, 20, <<>>, TRUE),
    RawZone(40, 40, 20, 0, <<>>, TRUE),
    RawZone(30, 120, 0, 40, <<>>, FALSE)
>>

\* isInside of the scan loop of checkProximityToHouses for one zone, on the
\* record loadHouseAreas makes of a raw object.
zoneTest(q, obj) ==
    /\ call = NoCall
    /\ LET house == MakeHouse(obj, 1)
       IN call' = [fn |-> "isInside", body |-> q, obj |-> obj, house |-> house,
                   result |-> IsInsideHouse(q.x, q.y, q.width, q.height, house)]
    /\ UNCHANGED restVars

PolygonSamples == {ShapeSamples[k] : k \in {i \in 1..Len(ShapeSamples) :
                                              Len(ShapeSamples[i].polygon) >= 3}}

\* The zone test and the wall test on one polygon geometry and one body.
polygonPair(q, obj) ==
    /\ call = NoCall
    /\ call' = [fn |-> "polygonPair", body |-> q, obj |-> obj,
                zoneResult |->
                  checkHousePolygonCollision(q.x, q.y, q.width, q.height,
                      MakeHouse(RawZone(obj.x, obj.y, obj.width, obj.height,
                                        obj.polygon, FALSE), 1)),
                wallResult |->
                  checkPolygonCollision(q.x, q.y, q.width, q.height,
                                        MakeObstacle(obj))]
    /\ UNCHANGED restVars

PureInit ==
    /\ Constructed
    /\ mapData = [objects |-> <<>>, width |-> 0, height |-> 0,
                  tilewidth |-> 0, tileheight |-> 0]
    /\ housesData = <<>>
    /\ player = [x |-> 80, y |-> 100, width |-> 10, height |-> 10]

PureNext ==
    \/ call = NoCall /\ \E q \in Bodies : \E k \in 1..Len(ShapeSamples) :
                           narrowPhase(q, ShapeSamples[k])
    \/ call = NoCall /\ \E a, b \in SmallRects : rectPair(a, b)
    \/ call = NoCall /\ \E poly \in ConvexPolygons : \E pt \in TestPoints :
                           pointTest(pt, poly)
    \/ call = NoCall /\ \E pt \in {Pt(5, 5), Pt(1000, 1000), Pt(0, 5), Pt(10, 10)} :
                           pointTest(pt, SpecSquare)
    \/ call = NoCall /\ \E q \in Bodies : \E k \in 1..Len(ZoneSamples) :
                           zoneTest(q, ZoneSamples[k])
    \/ call = NoCall /\ \E q \in Bodies : \E obj \in PolygonSamples :
                           polygonPair(q, obj)

PureSpec == PureInit /\ [][PureNext]_vars

StartInit ==
    /\ Constructed
    /\ mapData \in {d \in MapDocs : d.width = 0 /\ d.objects \in {<<>>, <<RawObjects[1]>>}}
    /\ housesData = <<>>
    /\ player = [x |-> 80, y |-> 100, width |-> 10, height |-> 10]

StartNext ==
    \/ \E i \in 1..MaxStarts : startGame(i)
    \/ \E i \in 1..MaxStarts : \E mapGoesOn \in BOOLEAN : assetsRejected(i, mapGoesOn)
    \/ \E i \in 1..MaxStarts : \E fails \in BOOLEAN : loadAssets(i, fails)
    \/ \E i \in 1..MaxStarts : startGameDone(i)
    \/ gameLoop
    \/ showLogin

StartSpec == StartInit /\ [][StartNext]_vars

\* ================================================================== claims
InBounds(r) == ~OutOfBounds(r.x, r.y, r.width, r.height)

NarrowHit(r) ==
    \E i \in 1..Len(collisionLayer) :
       checkShapeCollision(r.x, r.y, r.width, r.height, collisionLayer[i])

IsMoveStep == moves' # moves

\* The bounding box the claim C1 gives an obstacle: all world-space vertices
\* for the polygon and triangle kinds, position and size otherwise.
VertexBBox(wall) ==
    IF wall.shape \in {"polygon", "triangle"} /\ Len(wall.polygon) > 0
    THEN LET pts == WorldPoints(wall)
             xs == [k \in 1..Len(pts) |-> pts[k].x]
             ys == [k \in 1..Len(pts) |-> pts[k].y]
         IN [minX |-> SeqMin(xs), minY |-> SeqMin(ys),
             maxX |-> SeqMax(xs), maxY |-> SeqMax(ys)]
    ELSE [minX |-> wall.x, minY |-> wall.y,
          maxX |-> wall.x + wall.width, maxY |-> wall.y + wall.height]

BBoxOverlaps(b, q) ==
    /\ b.minX <= q.x + q.width /\ b.maxX >= q.x
    /\ b.minY <= q.y + q.height /\ b.maxY >= q.y

IsCandidate(i, q) ==
    LET cand == Candidates(q.x, q.y, q.width, q.height)
    IN \E k \in 1..Len(cand) : cand[k] = i

\* C1: after updateSpatialGrid has indexed the obstacles, every obstacle
\* whose world-space bounding box (vertices for polygon and triangle kinds,
\* position and size for the others) overlaps an in-bounds query rectangle
\* is in a cell that checkCollision visits for that rectangle.
C1_GridNoFalseNegatives ==
    lastLoad = "ok" =>
      \A i \in 1..Len(collisionLayer) : \A q \in QueryRects :
         (InBounds(q) /\ BBoxOverlaps(VertexBBox(collisionLayer[i]), q))
           => IsCandidate(i - 1, q)

\* C2: for every in-bounds rectangle the grid-accelerated checkCollision
\* returns true exactly when some obstacle of collisionLayer satisfies
\* checkShapeCollision.
C2_BroadPhaseExact ==
    \A q \in QueryRects :
       InBounds(q) =>
         ((CollisionOutcome(q.x, q.y, q.width, q.height) = "collision")
            <=> NarrowHit(q))

\* C3: a Player.move call that starts in bounds at a position where no
\* obstacle's narrow-phase predicate is true ends at a position where no
\* obstacle's narrow-phase predicate is true.
C3_ObstaclesBlock ==
    [][(IsMoveStep /\ InBounds(player) /\ ~NarrowHit(player))
         => ~NarrowHit(player')]_vars

\* C4: a Player.move call that starts inside the map bounds ends inside
\* them; a body at (0,0) moved by (-5,-5) in a 1037 x 1613 map stays at (0,0).
C4_BoundaryRejection ==
    [][IsMoveStep =>
         /\ InBounds(player) => InBounds(player')
         /\ (/\ player.x = 0 /\ player.y = 0
             /\ MapWidth = 1037 /\ MapHeight = 1613
             /\ lastMove'.dx = -5 /\ lastMove'.dy = -5)
            => player' = player]_vars

C4_Witness ==
    /\ lastMove = MoveFrom(-5, -5, 0, 0)
    /\ player.x = 0 /\ player.y = 0
    /\ MapWidth = 1037 /\ MapHeight = 1613

\* The position the claim C5 gives a move: X tested at (x+dx, y), then Y
\* tested at (x', y+dy), each axis committed when its own test passes.
AxisWiseResult(deltaX, deltaY) ==
    LET newX == IF deltaX # 0
                   /\ CollisionOutcome(player.x + deltaX, player.y,
                                       player.width, player.height) = "clear"
                THEN player.x + deltaX ELSE player.x
        newY == IF deltaY # 0
                   /\ CollisionOutcome(newX, player.y + deltaY,
                                       player.width, player.height) = "clear"
                THEN player.y + deltaY ELSE player.y
    IN Pt(newX, newY)

\* C5: Player.move tests X at (x+dx, y), then Y at (x', y+dy) with the X
\* coordinate left by the X step, and commits each axis whose test passes
\* whatever happened to the other axis; with the obstacle (100,100,50,50) a
\* 10 x 10 body moved from (80,100) by (30,0) keeps X = 80.
C5_AxesInOrder ==
    [][IsMoveStep =>
         LET d == lastMove'
             r == AxisWiseResult(d.dx, d.dy)
         IN /\ player'.x = r.x
            /\ player'.y = r.y
            /\ (/\ \E i \in 1..Len(collisionLayer) :
                     /\ collisionLayer[i].x = 100 /\ collisionLayer[i].y = 100
                     /\ collisionLayer[i].width = 50 /\ collisionLayer[i].height = 50
                /\ player.x = 80 /\ player.y = 100
                /\ d.dx = 30 /\ d.dy = 0)
               => player'.x = 80]_vars

\* C6: after Player.move(dx, dy) from (x, y) the new X is x or x+dx and the
\* new Y is y or y+dy.
C6_AllOrNothing ==
    [][IsMoveStep =>
         /\ player'.x \in {player.x, player.x + lastMove'.dx}
         /\ player'.y \in {player.y, player.y + lastMove'.dy}]_vars

C6_Witness ==
    /\ lastMove = MoveFrom(30, 10, 80, 100)
    /\ player.x = 80 /\ player.y = 110

PolledHere == lastPoll.ran /\ lastPoll.x = player.x /\ lastPoll.y = player.y

BodyInside(i) ==
    IsInsideHouse(player.x, player.y, player.width, player.height, houseAreas[i])

\* C7: after checkProximityToHouses has scanned at the body's position, the
\* selected zone is the first zone of houseAreas whose predicate is true;
\* with the body in the overlap of two zones it is never the later one.
C7_ZoneFirstMatch ==
    (PolledHere /\ Len(houseAreas) > 0) =>
      \A a \in 1..Len(houseAreas) :
         BodyInside(a) =>
           /\ (\A m \in 1..(a - 1) : ~BodyInside(m)) => currentHouse = a
           /\ (\E m \in 1..(a - 1) : BodyInside(m)) => currentHouse # a

C7_Witness ==
    /\ PolledHere
    /\ Len(houseAreas) = 2
    /\ BodyInside(1) /\ BodyInside(2)
    /\ houseAreas[1] # houseAreas[2]
    /\ currentHouse = 1

\* The kind the claim C8 gives a raw object.
ClaimedKind(obj) ==
    IF Len(obj.polygon) >= 4 THEN "polygon"
    ELSE IF Len(obj.polygon) = 3 THEN "triangle"
    ELSE IF obj.radius # 0 \/ (obj.width = obj.height /\ obj.width > 0) THEN "circle"
    ELSE "rectangle"

\* C8: every loaded obstacle carries the kind the precedence polygon (>= 4
\* vertices), triangle (3), circle (radius, or a positive square), rectangle
\* (all the rest) gives its raw object, and checkShapeCollision answers for it.
C8_ClassificationTotal ==
    lastLoad = "ok" =>
      /\ Len(collisionLayer) = Len(mapData.objects)
      /\ \A k \in 1..Len(collisionLayer) :
           /\ collisionLayer[k].shape = ClaimedKind(mapData.objects[k])
           /\ \A q \in QueryRects :
                checkShapeCollision(q.x, q.y, q.width, q.height, collisionLayer[k])
                  \in BOOLEAN

C8_Witness ==
    /\ lastLoad = "ok"
    /\ \E k \in 1..Len(collisionLayer) :
         /\ Len(mapData.objects[k].polygon) = 2
         /\ mapData.objects[k].rotation # 0
         /\ collisionLayer[k].shape = "rectangle"
    /\ \E k \in 1..Len(collisionLayer) : collisionLayer[k].shape = "triangle"

\* C9: whenever checkCollision can run, every index in spatialGrid is a valid
\* index into collisionLayer and spatialGrid is the grid updateSpatialGrid
\* builds from collisionLayer.
C9_GridMatchesLayer ==
    /\ \A key \in DOMAIN spatialGrid : \A k \in 1..Len(spatialGrid[key]) :
         spatialGrid[key][k] \in 0..(Len(collisionLayer) - 1)
    /\ spatialGrid = updateSpatialGrid(spatialGrid, collisionLayer)

\* C10: after a failed load the bounds are 1037 x 1613, the obstacle set is
\* empty and checkCollision returns false, without raising, for every
\* rectangle inside those bounds.
C10_FailedLoadFallback ==
    lastLoad = "failed" =>
      /\ MapWidth = 1037 /\ MapHeight = 1613
      /\ collisionLayer = <<>>
      /\ \A q \in QueryRects :
           (q.x >= 0 /\ q.y >= 0 /\ q.x + q.width <= 1037 /\ q.y + q.height <= 1613)
             => CollisionOutcome(q.x, q.y, q.width, q.height) = "clear"

\* C11: Player.move runs only after some loadCollisionData run has ended,
\* with the grid built or with the empty fallback, however startGame calls
\* overlap, and the body of gameLoop runs only with gameState 'playing'.
C11_MoveAfterLoad ==
    [][/\ IsMoveStep => lastLoad \in {"ok", "failed"}
       /\ (lastFrame'.tick # lastFrame.tick) => lastFrame'.state = "playing"]_vars

C11_Witness ==
    /\ moves > 0
    /\ \E i, j \in 1..MaxStarts :
         startCalls[i] = "started" /\ startCalls[j] \in {"loading", "orphan"}
    /\ gameState = "playing"
    /\ loops > 0

IsShapeCall(kind) == call.fn = "checkShapeCollision" /\ call.wall.shape = kind

\* Closed boxes meet, open boxes do not: the rectangles share boundary only.
EdgeContact(q, w) ==
    /\ q.x <= w.x + w.width /\ q.x + q.width >= w.x
    /\ q.y <= w.y + w.height /\ q.y + q.height >= w.y
    /\ \/ q.x = w.x + w.width \/ q.x + q.width = w.x
       \/ q.y = w.y + w.height \/ q.y + q.height = w.y

\* C12: for a rectangle obstacle with rotation 0 the narrow phase answers
\* x1 < x2+w2 /\ x1+w1 > x2 /\ y1 < y2+h2 /\ y1+h1 > y2, and a body that only
\* shares boundary with the obstacle is reported as not colliding.
C12_StrictRectangle ==
    (IsShapeCall("rectangle") /\ call.wall.rotation = 0) =>
      LET q == call.body
          w == call.wall
      IN /\ call.result <=> (/\ q.x < w.x + w.width /\ q.x + q.width > w.x
                             /\ q.y < w.y + w.height /\ q.y + q.height > w.y)
         /\ (w.width > 0 /\ w.height > 0 /\ EdgeContact(q, w)) => ~call.result

C12_Witness ==
    /\ IsShapeCall("rectangle") /\ call.wall.rotation = 0
    /\ call.wall.width > 0 /\ call.wall.height > 0
    /\ EdgeContact(call.body, call.wall)
    /\ call.body.x = call.wall.x + call.wall.width
    /\ call.body.y > call.wall.y /\ call.body.y < call.wall.y + call.wall.height
    /\ ~call.result

\* C13: rectCollision(A, B) = rectCollision(B, A) for all axis-aligned
\* rectangles A and B of the bounded integer domain.
C13_RectSymmetric ==
    call.fn = "rectCollision" =>
      call.result = rectCollision(call.b.x, call.b.y, call.b.width, call.b.height,
                                  call.a.x, call.a.y, call.a.width, call.a.height)

C13_Witness ==
    /\ call.fn = "rectCollision"
    /\ call.a # call.b
    /\ call.a.x < call.b.x
    /\ call.result

\* Axis i of the claim C14: the normal of edge i of shape1; it separates the
\* shapes iff max1 < min2 or max2 < min1 for the projections on it.
AxisSeparates(shape1, shape2, i) ==
    LET p1 == shape1[i]
        p2 == shape1[(i % Len(shape1)) + 1]
        axis == Pt(p2.y - p1.y, p1.x - p2.x)
        proj1 == projectShape(shape1, axis)
        proj2 == projectShape(shape2, axis)
    IN proj1.max < proj2.min \/ proj2.max < proj1.min

NoSeparatingAxis(shape1, shape2) ==
    /\ \A i \in 1..Len(shape1) : ~AxisSeparates(shape1, shape2, i)
    /\ \A i \in 1..Len(shape2) : ~AxisSeparates(shape2, shape1, i)

\* C14: for a rectangle obstacle with rotation # 0 the narrow phase reports
\* a collision exactly when none of the 8 edge normals (4 of the body, 4 of
\* the obstacle turned about its position) separates the two corner sets.
C14_SeparatingAxis ==
    (IsShapeCall("rectangle") /\ call.wall.rotation # 0) =>
      LET q == call.body
          w == call.wall
      IN call.result <=>
           NoSeparatingAxis(getRotatedCorners(q.x, q.y, q.width, q.height, 0),
                            getRotatedCorners(w.x, w.y, w.width, w.height, w.rotation))

\* Twice the radius the claim C15 gives a circle: the raw object's radius
\* when it has one, else half the smaller side.
ClaimedDiameter(obj) ==
    IF obj.radius # 0 THEN 2 * obj.radius ELSE Min(obj.width, obj.height)

\* Four times the squared distance between the body's centre and the centre
\* (position + radius on both axes) of the claim C15.
CentreDistance4(q, obj) ==
    LET dx2 == (2 * q.x + q.width) - (2 * obj.x + ClaimedDiameter(obj))
        dy2 == (2 * q.y + q.height) - (2 * obj.y + ClaimedDiameter(obj))
    IN dx2 * dx2 + dy2 * dy2

RadiusSum2(q, obj) == ClaimedDiameter(obj) + Min(q.width, q.height)

\* C15: for a circle obstacle the narrow phase reports a collision exactly
\* when the distance between the body's centre and the circle's centre is
\* strictly less than radius + min(w, h) / 2; tangent circles do not collide.
C15_CircleStrict ==
    IsShapeCall("circle") =>
      (call.result <=>
         CentreDistance4(call.body, call.obj)
           < RadiusSum2(call.body, call.obj) * RadiusSum2(call.body, call.obj))

C15_Witness ==
    /\ IsShapeCall("circle")
    /\ call.obj.radius # 0
    /\ CentreDistance4(call.body, call.obj)
         = RadiusSum2(call.body, call.obj) * RadiusSum2(call.body, call.obj)
    /\ call.body.x # call.obj.x + call.obj.radius - 5
    /\ call.body.y # call.obj.y + call.obj.radius - 5
    /\ ~call.result

\* The vertices the claim C16 gives a triangle, doubled: the explicit points,
\* else apex at top centre and base at the two bottom corners of the box.
ClaimedVertices2(obj) ==
    IF obj.points # <<>>
    THEN <<Pt(2 * obj.points[1].x, 2 * obj.points[1].y),
           Pt(2 * obj.points[2].x, 2 * obj.points[2].y),
           Pt(2 * obj.points[3].x, 2 * obj.points[3].y)>>
    ELSE <<Pt(2 * obj.x + obj.width, 2 * obj.y),
           Pt(2 * obj.x, 2 * obj.y + 2 * obj.height),
           Pt(2 * obj.x + 2 * obj.width, 2 * obj.y + 2 * obj.height)>>

\* alpha, beta, gamma >= 0: each weight is a quotient over denom, so its sign
\* is the sign of numerator * denom; with denom = 0 there are no weights.
WeightsNonNegative(p, a, b, c) ==
    LET denom == (b.y - c.y) * (a.x - c.x) + (c.x - b.x) * (a.y - c.y)
        alphaN == (b.y - c.y) * (p.x - c.x) + (c.x - b.x) * (p.y - c.y)
        betaN == (c.y - a.y) * (p.x - c.x) + (a.x - c.x) * (p.y - c.y)
        gammaN == denom - alphaN - betaN
    IN denom # 0 /\ alphaN * denom >= 0 /\ betaN * denom >= 0 /\ gammaN * denom >= 0

CornerInTriangle(q, v) ==
    \E cx \in {2 * q.x, 2 * q.x + 2 * q.width} :
      \E cy \in {2 * q.y, 2 * q.y + 2 * q.height} :
        WeightsNonNegative(Pt(cx, cy), v[1], v[2], v[3])

VertexInBody(q, v) ==
    \E k \in 1..3 :
      /\ v[k].x >= 2 * q.x /\ v[k].x <= 2 * q.x + 2 * q.width
      /\ v[k].y >= 2 * q.y /\ v[k].y <= 2 * q.y + 2 * q.height

\* C16: for a triangle obstacle the narrow phase reports a collision exactly
\* when a corner of the body passes the barycentric test or a vertex of the
\* triangle lies in the body's rectangle, bounds included; the vertices are
\* the explicit points, else apex top centre and base at the bottom corners.
C16_TriangleTest ==
    IsShapeCall("triangle") =>
      LET v == ClaimedVertices2(call.obj)
      IN call.result <=> (CornerInTriangle(call.body, v) \/ VertexInBody(call.body, v))

\* A body that holds the apex of the default-layout triangle (at a
\* half-integer x) and has no corner inside the triangle.
C16_Witness ==
    /\ IsShapeCall("triangle")
    /\ call.obj.points = <<>> /\ call.obj.width > 0
    /\ LET v == ClaimedVertices2(call.obj)
       IN /\ VertexInBody(call.body, v)
          /\ ~CornerInTriangle(call.body, v)
          /\ v[1].x = 2 * call.body.x + 2 * call.body.width - 5
    /\ call.result

\* Twice the signed area of the triangle a, b, c.
Orient(a, b, c) == (b.x - a.x) * (c.y - a.y) - (b.y - a.y) * (c.x - a.x)

\* The rightward ray from p crosses the edge from a to b: the edge passes
\* from y <= p.y to y > p.y (or back) and p lies on the side of the edge the
\* ray starts from.
RayHitsEdge(p, a, b) ==
    \/ a.y <= p.y /\ b.y > p.y /\ Orient(a, b, p) > 0
    \/ b.y <= p.y /\ a.y > p.y /\ Orient(b, a, p) > 0

\* Even-odd rule: an odd number of edges is crossed.
EvenOddInside(p, poly) ==
    Cardinality({i \in 1..Len(poly) :
                   RayHitsEdge(p, poly[i], poly[(i % Len(poly)) + 1])}) % 2 = 1

\* Two segments that are not parallel meet (end points included) iff each has
\* its end points on both sides of, or on, the line of the other.
SegmentsMeet(a, b, c, d) ==
    /\ (b.x - a.x) * (d.y - c.y) - (b.y - a.y) * (d.x - c.x) # 0
    /\ Sign(Orient(a, b, c)) * Sign(Orient(a, b, d)) <= 0
    /\ Sign(Orient(c, d, a)) * Sign(Orient(c, d, b)) <= 0

BodyEdges(q) ==
    LET tl == Pt(q.x, q.y)
        tr == Pt(q.x + q.width, q.y)
        bl == Pt(q.x, q.y + q.height)
        br == Pt(q.x + q.width, q.y + q.height)
    IN {<<tl, tr>>, <<tr, br>>, <<bl, br>>, <<tl, bl>>}

CornerInPolygon(q, poly) ==
    \E cx \in {q.x, q.x + q.width} : \E cy \in {q.y, q.y + q.height} :
       EvenOddInside(Pt(cx, cy), poly)

PolygonVertexInBody(q, poly) ==
    \E k \in 1..Len(poly) :
      /\ poly[k].x >= q.x /\ poly[k].x <= q.x + q.width
      /\ poly[k].y >= q.y /\ poly[k].y <= q.y + q.height

EdgesCross(q, poly) ==
    \E e \in BodyEdges(q) : \E i \in 1..Len(poly) :
       SegmentsMeet(e[1], e[2], poly[i], poly[(i % Len(poly)) + 1])

ClaimedWorldPoints(obj) ==
    [k \in 1..Len(obj.polygon) |-> Pt(obj.x + obj.polygon[k].x, obj.y + obj.polygon[k].y)]

\* C17: for a polygon obstacle the narrow phase reports a collision exactly
\* when (a) a corner of the body is inside the world-space polygon by the
\* even-odd rule, or (b) a vertex lies in the body's rectangle, bounds
\* included, or (c) an edge of the body meets an edge of the polygon, parallel
\* segments never meeting and both parameters taken in [0, 1].
C17_PolygonTest ==
    IsShapeCall("polygon") =>
      LET poly == ClaimedWorldPoints(call.obj)
      IN call.result <=> \/ CornerInPolygon(call.body, poly)
                         \/ PolygonVertexInBody(call.body, poly)
                         \/ EdgesCross(call.body, poly)

\* A spike passes through the body: only the edge test can answer.
C17_Witness ==
    /\ IsShapeCall("polygon")
    /\ LET poly == ClaimedWorldPoints(call.obj)
       IN /\ ~CornerInPolygon(call.body, poly)
          /\ ~PolygonVertexInBody(call.body, poly)
          /\ EdgesCross(call.body, poly)
    /\ call.result

StrictlyInside(p, poly) ==
    \/ \A i \in 1..Len(poly) : Orient(poly[i], poly[(i % Len(poly)) + 1], p) > 0
    \/ \A i \in 1..Len(poly) : Orient(poly[i], poly[(i % Len(poly)) + 1], p) < 0

OutsideBox(p, poly) ==
    \/ \A i \in 1..Len(poly) : p.x < poly[i].x
    \/ \A i \in 1..Len(poly) : p.x > poly[i].x
    \/ \A i \in 1..Len(poly) : p.y < poly[i].y
    \/ \A i \in 1..Len(poly) : p.y > poly[i].y

\* C18: pointInPolygon is true for every point strictly inside a convex
\* polygon and false for every point outside its bounding box; (5,5) is inside
\* and (1000,1000) outside the square (0,0),(10,0),(10,10),(0,10); the
\* MapManager and HouseInteractionManager methods agree.
C18_PointInPolygon ==
    call.fn = "pointInPolygon" =>
      /\ StrictlyInside(call.point, call.polygon) => call.result
      /\ OutsideBox(call.point, call.polygon) => ~call.result
      /\ (call.polygon = SpecSquare /\ call.point = Pt(5, 5)) => call.result
      /\ (call.polygon = SpecSquare /\ call.point = Pt(1000, 1000)) => ~call.result
      /\ call.houseResult = call.result

\* A point strictly inside a convex quadrilateral whose closing edge (last
\* vertex back to the first) is the one the ray crosses.
C18_Witness ==
    /\ call.fn = "pointInPolygon"
    /\ Len(call.polygon) = 4
    /\ call.polygon # SpecSquare
    /\ StrictlyInside(call.point, call.polygon)
    /\ RayHitsEdge(call.point, call.polygon[4], call.polygon[1])
    /\ call.result /\ call.houseResult

IsZoneCall(kind) == call.fn = "isInside" /\ call.house.shape = kind

\* The closed intervals [a1, a2] and [b1, b2] have a point in common.
IntervalsMeet(a1, a2, b1, b2) == Max(a1, b1) <= Min(a2, b2)

CornerInEllipse(cx2, cy2, z) ==
    LET dx2 == cx2 - (2 * z.x + z.width)
        dy2 == cy2 - (2 * z.y + z.height)
    IN dx2 * dx2 * z.height * z.height + dy2 * dy2 * z.width * z.width
         <= z.width * z.width * z.height * z.height

SomeCornerInEllipse(q, z) ==
    \E cx2 \in {2 * q.x, 2 * q.x + 2 * q.width} :
      \E cy2 \in {2 * q.y, 2 * q.y + 2 * q.height} : CornerInEllipse(cx2, cy2, z)

\* C20: an ellipse zone contains the body exactly when one of the body's four
\* corners satisfies the ellipse inequality; a body that covers the centre of
\* the ellipse with no corner in it is outside; with a zero half-axis every
\* body is outside.
C20_ZoneEllipseCorners ==
    IsZoneCall("ellipse") =>
      LET q == call.body
          z == call.obj
      IN IF z.width = 0 \/ z.height = 0 THEN ~call.result
         ELSE call.result <=> SomeCornerInEllipse(q, z)

C20_Witness ==
    /\ IsZoneCall("ellipse")
    /\ call.obj.width > 0 /\ call.obj.height > 0
    /\ 2 * call.body.x < 2 * call.obj.x + call.obj.width
    /\ 2 * call.body.x + 2 * call.body.width > 2 * call.obj.x + call.obj.width
    /\ 2 * call.body.y < 2 * call.obj.y + call.obj.height
    /\ 2 * call.body.y + 2 * call.body.height > 2 * call.obj.y + call.obj.height
    /\ ~SomeCornerInEllipse(call.body, call.obj)
    /\ ~call.result

FirstZoneContaining ==
    IF \E a \in 1..Len(houseAreas) : BodyInside(a)
    THEN CHOOSE a \in 1..Len(houseAreas) :
           BodyInside(a) /\ \A m \in 1..(a - 1) : ~BodyInside(m)
    ELSE 0

\* C22: once the house areas are loaded and the body has stopped moving,
\* with update called again and again as time advances, currentHouse
\* eventually is, and from then on stays, the first zone containing the body
\* (null when none does); the 100 ms gate only delays this.
C22_PollEventuallyConsistent ==
    <>[](housesLoad = "ok" => currentHouse = FirstZoneContaining)

\* The body has made its last move out of every zone, and a scan let through
\* by the gate has cleared the zone it had been in.
C22_Witness ==
    /\ housesLoad = "ok"
    /\ moves = MaxMoves
    /\ PolledHere
    /\ Len(houseAreas) > 0
    /\ currentHouse = 0
    /\ hideTimers # <<>>
    /\ sinceCheck = 0

\* C29: whenever no hide or show callback is pending, the interaction button
\* is displayed exactly when currentHouse is set; leaving a zone and entering
\* one again before the hide callback fires does not leave the button hidden.
C29_ButtonTracksZone ==
    (hideTimers = <<>> /\ showTimers = <<>>) =>
      ((button.display = "block") <=> (currentHouse # 0))

CellRange == -4..4

\* The cell coordinate g with g*gridSize <= v < (g+1)*gridSize.
FloorCell(v) == CHOOSE g \in CellRange : g * gridSize <= v /\ v < (g + 1) * gridSize

Occurrences(seq, i) == Cardinality({k \in 1..Len(seq) : seq[k] = i})

CellList(gx, gy) ==
    IF <<gx, gy>> \in DOMAIN spatialGrid THEN spatialGrid[<<gx, gy>>] ELSE <<>>

InBoxCells(wall, gx, gy) ==
    LET b == GridBBox(wall)
    IN /\ FloorCell(b.minX) <= gx /\ gx <= FloorCell(b.maxX)
       /\ FloorCell(b.minY) <= gy /\ gy <= FloorCell(b.maxY)

C24_GridConstruction ==
    lastLoad = "ok" =>
      /\ \A gx \in CellRange, gy \in CellRange :
            \A i \in 0..(Len(collisionLayer) - 1) :
               Occurrences(CellList(gx, gy), i) =
                 (IF InBoxCells(collisionLayer[i + 1], gx, gy) THEN 1 ELSE 0)
      /\ \A key \in DOMAIN spatialGrid :
            /\ key \in CellRange \X CellRange
            /\ \A k \in 1..Len(spatialGrid[key]) :
                 spatialGrid[key][k] \in 0..(Len(collisionLayer) - 1)
      /\ (collisionLayer = <<>> => DOMAIN spatialGrid = {})

C24_Witness ==
    /\ lastLoad = "ok"
    /\ \E i \in 1..Len(collisionLayer) :
         /\ GridBBox(collisionLayer[i]).minX < 0
         /\ GridBBox(collisionLayer[i]).minY < 0
    /\ \E i \in 1..Len(collisionLayer) :
         /\ GridBBox(collisionLayer[i]).maxX = 2 * gridSize
         /\ Occurrences(CellList(2, 2), i - 1) = 1
    /\ <<-2, -1>> \in DOMAIN spatialGrid

\* The barycentric denominator of three vertices is 0: they are collinear
\* or coincide.
ZeroArea(v) ==
    (v[2].y - v[3].y) * (v[1].x - v[3].x) + (v[3].x - v[2].x) * (v[1].y - v[3].y) = 0

\* C25: for a triangle obstacle whose three vertices are collinear or
\* coincident, checkTriangleCollision reports no collision for every body
\* rectangle.
C25_DegenerateTriangle ==
    (IsShapeCall("triangle") /\ ZeroArea(ClaimedVertices2(call.obj))) => ~call.result

\* The world-space vertices of a three-vertex polygon array, doubled.
PolygonVertices2(obj) ==
    [k \in 1..3 |-> Pt(2 * (obj.x + obj.polygon[k].x), 2 * (obj.y + obj.polygon[k].y))]

\* A corner of the body is in the closed triangle v: no barycentric weight
\* is negative.
CornerInside(q, v) ==
    LET denom == (v[2].y - v[3].y) * (v[1].x - v[3].x)
                   + (v[3].x - v[2].x) * (v[1].y - v[3].y)
        sg == IF denom > 0 THEN 1 ELSE -1
        Inside(p) ==
          LET alphaN == (v[2].y - v[3].y) * (p.x - v[3].x)
                          + (v[3].x - v[2].x) * (p.y - v[3].y)
              betaN == (v[3].y - v[1].y) * (p.x - v[3].x)
                         + (v[1].x - v[3].x) * (p.y - v[3].y)
          IN alphaN * sg >= 0 /\ betaN * sg >= 0 /\ (denom - alphaN - betaN) * sg >= 0
    IN /\ denom # 0
       /\ \E cx \in {2 * q.x, 2 * q.x + 2 * q.width} :
            \E cy \in {2 * q.y, 2 * q.y + 2 * q.height} : Inside(Pt(cx, cy))

\* C26: for an obstacle classified as triangle because its polygon array has
\* exactly 3 vertices, checkTriangleCollision tests the triangle of the
\* polygon's three world-space vertices (position + offset) and
\* updateSpatialGrid indexes the bounding box of those vertices.
C26_TriangleFromPolygon ==
    (IsShapeCall("triangle") /\ Len(call.obj.polygon) = 3) =>
      LET v == PolygonVertices2(call.obj)
      IN /\ call.result <=> (CornerInside(call.body, v) \/ VertexInBody(call.body, v))
         /\ GridBBox(call.wall) = VertexBBox(call.wall)

\* An unrotated rectangle obstacle overlaps the open rectangle r.
RectangleIn(r) ==
    \E i \in 1..Len(collisionLayer) :
       /\ collisionLayer[i].shape = "rectangle"
       /\ collisionLayer[i].rotation = 0
       /\ r.x < collisionLayer[i].x + collisionLayer[i].width
       /\ r.x + r.width > collisionLayer[i].x
       /\ r.y < collisionLayer[i].y + collisionLayer[i].height
       /\ r.y + r.height > collisionLayer[i].y

\* The region the body sweeps going from (x1, y1) to (x2, y2).
Swept(x1, y1, x2, y2) ==
    [x |-> Min(x1, x2), y |-> Min(y1, y2),
     width |-> Max(x1, x2) - Min(x1, x2) + player.width,
     height |-> Max(y1, y2) - Min(y1, y2) + player.height]

\* C27: when Player.move commits an axis move from an in-bounds position
\* where nothing collides, no unrotated rectangle obstacle overlaps the
\* region the body sweeps on that axis, whatever the size of the delta.
C27_NoTunnelling ==
    [][(IsMoveStep /\ InBounds(player) /\ ~NarrowHit(player)) =>
         /\ player'.x # player.x =>
               ~RectangleIn(Swept(player.x, player.y, player'.x, player.y))
         /\ player'.y # player.y =>
               ~RectangleIn(Swept(player'.x, player.y, player'.x, player'.y))]_vars

\* A step of update that gets through the time gate with zones loaded: a run
\* of checkProximityToHouses.
ScanStep == sinceCheck > 0 /\ sinceCheck' = 0 /\ Len(houseAreas) > 0

\* C28: after every run of checkProximityToHouses with a non-empty
\* houseAreas, currentHouse is the first zone, in houseAreas order, whose
\* predicate is true for the body's rectangle, or null when no zone
\* matches: never a zone the body has left, never a later zone while an
\* earlier one matches.
C28_ScanSetsFirstZone ==
    [][ScanStep =>
         /\ currentHouse' = FirstZoneContaining'
         /\ (currentHouse' # 0 =>
               IsInsideHouse(player'.x, player'.y, player'.width, player'.height,
                             houseAreas'[currentHouse']))]_vars

\* A scan has just moved the selection from the first zone, which the body
\* has left, to the second.
C28_Witness ==
    /\ PolledHere /\ sinceCheck = 0
    /\ Len(houseAreas) = 2
    /\ ~BodyInside(1) /\ BodyInside(2)
    /\ currentHouse = 2
    /\ Len(showTimers) + Len(hideTimers) >= 1
    /\ moves > 0

\* C30: however startGame calls overlap with pending animation-frame
\* callbacks, at most one pending gameLoop callback will run update().
C30_SingleLoopChain == gameState = "playing" => loops <= 1

====
